---- MODULE Spec2Model ----
(***************************************************************************)
(* Model of the docker volume-driver module of rexray                      *)
(* (daemon/module/docker/volumedriver/voldriver.go).                       *)
(*                                                                         *)
(* Strings are sequences of symbols.  A symbol is a one-character string, *)
(* or a longer literal ("://", "/run/docker/plugins/", ".sock", ...) that *)
(* none of the modelled operations ever splits.  A path is a string whose *)
(* directory components are symbols ending in "/".                         *)
(***************************************************************************)
EXTENDS Integers, Sequences, FiniteSets, TLC

VARIABLES
    cfg,        \* module.Config handed to newModule: Name, Address, Spec
    m,          \* the mod struct built by newModule (name, addr), or NoMod
    fname,      \* last result of cleanName, or NoName
    pc,         \* position of the thread executing Start()
    proto,      \* Start(): local proto
    addr,       \* Start(): local addr
    specPath,   \* Start(): local specPath
    rmErr,      \* Start(): the discarded result of os.RemoveAll(sockFile)
    ret,        \* what the last Start() returned
    gor,        \* the serve goroutines launched by Start(), in launch order
    dirs,       \* filesystem: existing directories
    files,      \* filesystem: existing files, path -> content
    crashed,    \* the process has terminated (panic or kill)
    starts,     \* number of Start() calls made so far, over all process runs
    reqs,       \* in-flight and answered HTTP requests
    calls       \* log of calls made to the Volume Manager (m.r.Volume)

nameVars == <<cfg, m, fname>>
lifeVars == <<pc, proto, addr, specPath, rmErr, ret, gor, dirs, files, crashed,
              starts>>
muxVars  == <<reqs, calls>>
vars     == <<cfg, m, fname, pc, proto, addr, specPath, rmErr, ret, gor, dirs,
              files, crashed, starts, reqs, calls>>

(***************************************************************************)
(* Bounds                                                                  *)
(***************************************************************************)
MaxNameLen == 3
MaxStarts == 3
MaxReqs == 2

(***************************************************************************)
(* Strings                                                                 *)
(***************************************************************************)
Range(s) == {s[i] : i \in 1..Len(s)}

Upper == <<"A","B","C","D","E","F","G","H","I","J","K","L","M",
           "N","O","P","Q","R","S","T","U","V","W","X","Y","Z">>
Lower == <<"a","b","c","d","e","f","g","h","i","j","k","l","m",
           "n","o","p","q","r","s","t","u","v","w","x","y","z">>
Digits == {"0","1","2","3","4","5","6","7","8","9"}

\* strings.ToLower, one character
ToLowerChar(c) ==
    IF \E i \in 1..Len(Upper) : Upper[i] = c
    THEN Lower[CHOOSE i \in 1..Len(Upper) : Upper[i] = c]
    ELSE c

\* strings.ToLower
ToLower(s) == [i \in 1..Len(s) |-> ToLowerChar(s[i])]

\* strings.Trim(s, " "): strips leading and trailing space characters only
RECURSIVE TrimLeft(_)
TrimLeft(s) ==
    IF s # <<>> /\ Head(s) = " " THEN TrimLeft(Tail(s)) ELSE s

RECURSIVE TrimRight(_)
TrimRight(s) ==
    IF s # <<>> /\ s[Len(s)] = " " THEN TrimRight(SubSeq(s, 1, Len(s) - 1)) ELSE s

Trim(s) == TrimRight(TrimLeft(s))

HasPrefix(s, p) == Len(s) >= Len(p) /\ SubSeq(s, 1, Len(p)) = p
HasSuffix(s, p) == Len(s) >= Len(p) /\ SubSeq(s, Len(s) - Len(p) + 1, Len(s)) = p

(***************************************************************************)
(* cleanName and its three regular expressions                             *)
(***************************************************************************)
\* separators = `[ &_=+:]`
separators == {" ", "&", "_", "=", "+", ":"}

\* illegalPath = `[^[:alnum:]\~\-\./]`: a character is legal iff it is an
\* ASCII letter or digit or one of ~ - . /
IsLegalPathChar(c) ==
    \/ c \in Range(Upper) \cup Range(Lower) \cup Digits
    \/ c \in {"~", "-", ".", "/"}

\* separators.ReplaceAllString(s, "-"): every single separator becomes "-"
ReplaceSeparators(s) ==
    [i \in 1..Len(s) |-> IF s[i] \in separators THEN "-" ELSE s[i]]

\* illegalPath.ReplaceAllString(s, "")
RECURSIVE RemoveIllegal(_)
RemoveIllegal(s) ==
    IF s = <<>> THEN <<>>
    ELSE IF IsLegalPathChar(Head(s)) THEN <<Head(s)>> \o RemoveIllegal(Tail(s))
    ELSE RemoveIllegal(Tail(s))

\* dashes = `[\-]+`; dashes.ReplaceAllString(s, "-")
RECURSIVE CollapseDashes(_)
CollapseDashes(s) ==
    IF Len(s) < 2 THEN s
    ELSE IF s[1] = "-" /\ s[2] = "-" THEN CollapseDashes(Tail(s))
    ELSE <<Head(s)>> \o CollapseDashes(Tail(s))

\* a plausible slip: hyphen runs collapsed before the illegal characters
\* between them are deleted
cleanNameCollapseFirst(s) ==
    RemoveIllegal(CollapseDashes(ReplaceSeparators(Trim(ToLower(s)))))

cleanName(s) ==
    CollapseDashes(RemoveIllegal(ReplaceSeparators(Trim(ToLower(s)))))

(***************************************************************************)
(* newModule                                                               *)
(***************************************************************************)
DefaultDocker == <<"d","e","f","a","u","l","t","-","d","o","c","k","e","r">>
Rexray == <<"r","e","x","r","a","y">>
UnixScheme == <<"u","n","i","x">>
TcpScheme == <<"t","c","p">>
RunPlugins == <<"/run/docker/plugins/">>
EtcPlugins == <<"/etc/docker/plugins/">>

NoMod == [name |-> <<"?">>, addr |-> <<"?">>, built |-> FALSE]
NoName == <<"?">>

\* the host computed by newModule, lines 46-55
ModuleHost(c) ==
    LET host == Trim(c.Address) IN
    IF host = <<>>
    THEN IF c.Name = DefaultDocker
         THEN UnixScheme \o <<"://">> \o RunPlugins \o Rexray \o <<".sock">>
         ELSE UnixScheme \o <<"://">> \o RunPlugins \o cleanName(c.Name) \o <<".sock">>
    ELSE host

\* a plausible slip: the default-docker exception is dropped
newModuleNoException(c) ==
    [name |-> c.Name,
     addr |-> IF Trim(c.Address) = <<>>
              THEN UnixScheme \o <<"://">> \o RunPlugins \o cleanName(c.Name) \o <<".sock">>
              ELSE Trim(c.Address),
     built |-> TRUE]

newModule(c) == [name |-> c.Name, addr |-> ModuleHost(c), built |-> TRUE]

(***************************************************************************)
(* Paths, the filesystem and the network, as Start() uses them             *)
(***************************************************************************)
DirSyms == {"/", "/run/", "/tmp/", "/run/docker/plugins/", "/etc/docker/plugins/"}

\* filepath.Dir: the path up to its last directory component
Dir(p) ==
    LET I == {i \in 1..Len(p) : p[i] \in DirSyms} IN
    IF I = {} THEN <<".">>
    ELSE SubSeq(p, 1, CHOOSE i \in I : \A j \in I : j <= i)

\* os.MkdirAll(d, 0755) on success: d and every missing ancestor exist
MkdirAll(d, ds) ==
    ds \cup {SubSeq(d, 1, i) : i \in {j \in 1..Len(d) : d[j] \in DirSyms}}

\* os.RemoveAll(p) on success: p and everything below it are gone; no error
\* when p does not exist
RemoveAll(p, fs) ==
    [q \in {r \in DOMAIN fs : r # p /\ ~HasPrefix(r, p \o <<"/">>)} |-> fs[q]]

\* ioutil.WriteFile(p, data, 0644) on success
WriteFile(p, data, fs) ==
    [q \in DOMAIN fs \cup {p} |-> IF q = p THEN data ELSE fs[q]]

\* gotil.FileExists
FileExists(p, fs) == p \in DOMAIN fs

\* gotil.ParseAddress matches the address against
\*   (?i)^((?:(?:tcp|udp|ip)[46]?)|(?:unix(?:gram|packet)?))://(.+)$
\* and returns the scheme as written and the rest
NetSchemes ==
    {<<"t","c","p">>, <<"t","c","p","4">>, <<"t","c","p","6">>,
     <<"u","d","p">>, <<"u","d","p","4">>, <<"u","d","p","6">>,
     <<"i","p">>, <<"i","p","4">>, <<"i","p","6">>,
     <<"u","n","i","x">>, <<"u","n","i","x","g","r","a","m">>,
     <<"u","n","i","x","p","a","c","k","e","t">>}

SepIndex(a) ==
    LET I == {i \in 1..Len(a) : a[i] = "://"} IN
    IF I = {} THEN 0 ELSE CHOOSE i \in I : \A j \in I : i <= j

ParseAddress(a) ==
    LET i == SepIndex(a) IN
    IF i = 0 \/ i = Len(a) \/ ToLower(SubSeq(a, 1, i - 1)) \notin NetSchemes
    THEN [err |-> "invalid address", proto |-> <<>>, addr |-> <<>>]
    ELSE [err |-> "nil", proto |-> SubSeq(a, 1, i - 1),
          addr |-> SubSeq(a, i + 1, Len(a))]

\* regexp.MatchString("(?i)^unix|tcp$", proto): the pattern is the
\* alternation of ^unix and tcp$
isProtoValid(p) ==
    HasPrefix(ToLower(p), UnixScheme) \/ HasSuffix(ToLower(p), TcpScheme)

\* a plausible slip: the default-docker exception is dropped
SpecFileNoException(mod, c) ==
    IF c.Spec = <<>>
    THEN EtcPlugins \o cleanName(mod.name) \o <<".spec">>
    ELSE c.Spec

\* the default discovery path, lines 182-190
SpecFile(mod, c) ==
    IF c.Spec = <<>>
    THEN IF mod.name = DefaultDocker
         THEN EtcPlugins \o Rexray \o <<".spec">>
         ELSE EtcPlugins \o cleanName(mod.name) \o <<".spec">>
    ELSE c.Spec

\* an address the TCP listener can bind: host:port
HostPorts == {"127.0.0.1:8080"}
IsHostPort(a) == Len(a) = 1 /\ a[1] \in HostPorts

(***************************************************************************)
(* Start(): the calling thread                                             *)
(***************************************************************************)
NoStr == <<"?">>
Socket == <<"socket">>
Last == Len(ret)

\* Start() returns e to its caller
Return(e) ==
    /\ ret' = [ret EXCEPT ![Last] = e]
    /\ pc' = "idle"
    /\ proto' = NoStr /\ addr' = NoStr /\ specPath' = NoStr /\ rmErr' = "unset"

Running(at) == ~crashed /\ pc = at

\* lines 102-105: gotil.ParseAddress(m.Address())
StartParseAddress ==
    /\ Running("idle") /\ m.built /\ starts < MaxStarts
    /\ starts' = starts + 1
    /\ LET r == ParseAddress(m.addr) IN
       IF r.err # "nil"
       THEN /\ ret' = Append(ret, r.err)
            /\ UNCHANGED <<pc, proto, addr>>
       ELSE /\ ret' = Append(ret, "pending")
            /\ pc' = "mkdirEarly"
            /\ proto' = r.proto /\ addr' = r.addr
    /\ UNCHANGED <<specPath, rmErr, gor, dirs, files, crashed>>
    /\ UNCHANGED <<nameVars, muxVars>>

\* a plausible slip: the stale socket file is removed at this point already
StartMkdirEarlyRemovesSock ==
    /\ Running("mkdirEarly")
    /\ IF proto = UnixScheme
       THEN /\ \E ok \in BOOLEAN :
                 dirs' = IF ok THEN MkdirAll(Dir(addr), dirs) ELSE dirs
            /\ files' = RemoveAll(addr, files)
       ELSE dirs' = dirs /\ files' = files
    /\ pc' = "validate"
    /\ UNCHANGED <<proto, addr, specPath, rmErr, ret, gor, crashed, starts>>
    /\ UNCHANGED <<nameVars, muxVars>>

\* lines 107-110: the socket's directory is created before the scheme is
\* validated; the result of os.MkdirAll is not looked at
StartMkdirEarly ==
    /\ Running("mkdirEarly")
    /\ IF proto = UnixScheme
       THEN \E ok \in BOOLEAN :
              dirs' = IF ok THEN MkdirAll(Dir(addr), dirs) ELSE dirs
       ELSE dirs' = dirs
    /\ pc' = "validate"
    /\ UNCHANGED <<proto, addr, specPath, rmErr, ret, gor, files, crashed, starts>>
    /\ UNCHANGED <<nameVars, muxVars>>

\* lines 112-122
StartValidate ==
    /\ Running("validate")
    /\ IF isProtoValid(proto)
       THEN pc' = "initDrivers" /\ UNCHANGED <<proto, addr, specPath, rmErr, ret>>
       ELSE Return("invalid protocol")
    /\ UNCHANGED <<gor, dirs, files, crashed, starts>>
    /\ UNCHANGED <<nameVars, muxVars>>

\* lines 124-129: m.r.InitDrivers() belongs to the Volume Manager and may fail
StartInitDrivers ==
    /\ Running("initDrivers")
    /\ \E ok \in BOOLEAN :
         IF ok
         THEN pc' = "mkdirPlugins" /\ UNCHANGED <<proto, addr, specPath, rmErr, ret>>
         ELSE Return("error initializing drivers")
    /\ UNCHANGED <<gor, dirs, files, crashed, starts>>
    /\ UNCHANGED <<nameVars, muxVars>>

\* lines 131-133 and, for a scheme other than "unix", lines 161-173
StartMkdirPlugins ==
    /\ Running("mkdirPlugins")
    /\ \E ok \in BOOLEAN :
         IF ok
         THEN /\ dirs' = MkdirAll(EtcPlugins, dirs)
              /\ IF proto = UnixScheme
                 THEN pc' = "mkSockDir" /\ specPath' = specPath
                 ELSE pc' = "go" /\ specPath' = addr
              /\ UNCHANGED <<proto, addr, rmErr, ret>>
         ELSE /\ dirs' = dirs
              /\ Return("mkdir error")
    /\ UNCHANGED <<gor, files, crashed, starts>>
    /\ UNCHANGED <<nameVars, muxVars>>

\* lines 141-146
StartMkSockDir ==
    /\ Running("mkSockDir")
    /\ \E ok \in BOOLEAN :
         IF ok
         THEN /\ dirs' = MkdirAll(Dir(addr), dirs)
              /\ pc' = "rmSock"
              /\ UNCHANGED <<proto, addr, specPath, rmErr, ret>>
         ELSE /\ dirs' = dirs
              /\ Return("mkdir error")
    /\ UNCHANGED <<gor, files, crashed, starts>>
    /\ UNCHANGED <<nameVars, muxVars>>

\* the removal left out
StartRemoveSockSkipped ==
    /\ Running("rmSock")
    /\ rmErr' = "nil"
    /\ specPath' = m.addr
    /\ pc' = "go"
    /\ UNCHANGED <<proto, addr, ret, gor, dirs, files, crashed, starts>>
    /\ UNCHANGED <<nameVars, muxVars>>

\* lines 148-150: _ = os.RemoveAll(sockFile); specPath = m.Address()
StartRemoveSock ==
    /\ Running("rmSock")
    /\ \E ok \in BOOLEAN :
         IF ok
         THEN files' = RemoveAll(addr, files) /\ rmErr' = "nil"
         ELSE files' = files /\ rmErr' = "remove error"
    /\ specPath' = m.addr
    /\ pc' = "go"
    /\ UNCHANGED <<proto, addr, ret, gor, dirs, crashed, starts>>
    /\ UNCHANGED <<nameVars, muxVars>>

\* lines 175-180: go func() { ... }()
StartGo ==
    /\ Running("go")
    /\ gor' = Append(gor, [start  |-> Last,
                           net    |-> IF proto = UnixScheme THEN "unix" ELSE "tcp",
                           listen |-> addr,
                           state  |-> "launched"])
    /\ pc' = "checkSpec"
    /\ UNCHANGED <<proto, addr, specPath, rmErr, ret, dirs, files, crashed, starts>>
    /\ UNCHANGED <<nameVars, muxVars>>

\* the existence test left out
StartCheckSpecAlwaysWrite ==
    /\ Running("checkSpec")
    /\ pc' = "writeSpec"
    /\ UNCHANGED <<proto, addr, specPath, rmErr, ret>>
    /\ UNCHANGED <<gor, dirs, files, crashed, starts>>
    /\ UNCHANGED <<nameVars, muxVars>>

\* lines 182-194 and 200
StartCheckSpec ==
    /\ Running("checkSpec")
    /\ IF ~FileExists(SpecFile(m, cfg), files)
       THEN pc' = "writeSpec" /\ UNCHANGED <<proto, addr, specPath, rmErr, ret>>
       ELSE Return("nil")
    /\ UNCHANGED <<gor, dirs, files, crashed, starts>>
    /\ UNCHANGED <<nameVars, muxVars>>

\* lines 195-200
StartWriteSpec ==
    /\ Running("writeSpec")
    /\ \E ok \in BOOLEAN :
         IF ok
         THEN /\ files' = WriteFile(SpecFile(m, cfg), specPath, files)
              /\ Return("nil")
         ELSE /\ files' = files
              /\ Return("write error")
    /\ UNCHANGED <<gor, dirs, crashed, starts>>
    /\ UNCHANGED <<nameVars, muxVars>>

(***************************************************************************)
(* The serve goroutine launched by Start(), lines 151-180                  *)
(***************************************************************************)
SetState(i, st) == gor' = [gor EXCEPT ![i].state = st]

\* net.Listen("unix", sockFile) can succeed only if nothing is at sockFile
\* and its directory exists; ListenAndServe only on a host:port no listener
\* of this process holds
CanBind(i) ==
    IF gor[i].net = "unix"
    THEN ~FileExists(gor[i].listen, files) /\ Dir(gor[i].listen) \in dirs
    ELSE /\ IsHostPort(gor[i].listen)
         /\ \A j \in 1..Len(gor) :
              ~(gor[j].state = "serving" /\ gor[j].net = "tcp"
                /\ gor[j].listen = gor[i].listen)

\* lines 152-155, 164-171, 176-179: the bind; a failure is returned by
\* startFunc and raised as a panic
GoListen(i) ==
    /\ ~crashed /\ gor[i].state = "launched"
    /\ \E ok \in BOOLEAN :
         /\ ok => CanBind(i)
         /\ IF ok
            THEN /\ SetState(i, "serving")
                 /\ files' = IF gor[i].net = "unix"
                              THEN WriteFile(gor[i].listen, Socket, files)
                              ELSE files
                 /\ crashed' = crashed
            ELSE /\ SetState(i, "bindFailed")
                 /\ files' = files
                 /\ crashed' = TRUE
    /\ UNCHANGED <<pc, proto, addr, specPath, rmErr, ret, dirs, starts>>
    /\ UNCHANGED <<nameVars, muxVars>>

\* the deferred os.Remove left out
GoServeFailKeepsSocket(i) ==
    /\ ~crashed /\ gor[i].state = "serving"
    /\ SetState(i, "serveFailed")
    /\ files' = files
    /\ crashed' = TRUE
    /\ UNCHANGED <<pc, proto, addr, specPath, rmErr, ret, dirs, starts>>
    /\ UNCHANGED <<nameVars, muxVars>>

\* lines 156-159, 176-179: http.Serve returns; the deferred os.Remove and
\* l.Close run, then the error is raised as a panic
GoServeFail(i) ==
    /\ ~crashed /\ gor[i].state = "serving"
    /\ SetState(i, "serveFailed")
    /\ files' = IF gor[i].net = "unix" THEN RemoveAll(gor[i].listen, files) ELSE files
    /\ crashed' = TRUE
    /\ UNCHANGED <<pc, proto, addr, specPath, rmErr, ret, dirs, starts>>
    /\ UNCHANGED <<nameVars, muxVars>>

(***************************************************************************)
(* The process: an unclean shutdown, and the next run of the daemon        *)
(***************************************************************************)
\* the process is killed: no deferred call runs, the filesystem stays
Kill ==
    /\ ~crashed /\ m.built
    /\ crashed' = TRUE
    /\ UNCHANGED <<pc, proto, addr, specPath, rmErr, ret, gor, dirs, files, starts>>
    /\ UNCHANGED <<nameVars, muxVars>>

Addresses ==
    {<<>>,
     UnixScheme \o <<"://", "/run/", "x.sock">>,
     TcpScheme \o <<"://", "127.0.0.1:8080">>,
     <<"U","N","I","X", "://", "/run/", "x.sock">>,
     <<"u","n","i","x","g","r","a","m", "://", "/run/", "x.sock">>,
     <<"t","c","p","4", "://", "127.0.0.1:8080">>,
     <<"f","t","p", "://", "host">>}

LifeNames == {DefaultDocker, <<"M","y","_","1">>}
LifeSpecs == {<<>>, <<"/tmp/", "x.spec">>}

\* the daemon is started again, possibly with another address configured;
\* the module is constructed anew (newModule)
Restart ==
    /\ crashed /\ starts < MaxStarts
    /\ \E a \in Addresses :
         /\ cfg' = [cfg EXCEPT !.Address = a]
         /\ m' = newModule(cfg')
    /\ crashed' = FALSE
    /\ pc' = "idle" /\ ret' = <<>> /\ gor' = <<>>
    /\ proto' = NoStr /\ addr' = NoStr /\ specPath' = NoStr /\ rmErr' = "unset"
    /\ UNCHANGED <<fname, dirs, files, starts>>
    /\ UNCHANGED muxVars

EmptyFS == [q \in {} |-> <<>>]

Init ==
    /\ cfg \in [Name : LifeNames, Address : Addresses, Spec : LifeSpecs]
    /\ m = newModule(cfg)
    /\ fname = NoName
    /\ pc = "idle" /\ ret = <<>> /\ gor = <<>>
    /\ proto = NoStr /\ addr = NoStr /\ specPath = NoStr /\ rmErr = "unset"
    /\ dirs = {<<"/">>, <<"/tmp/">>}
    /\ files = EmptyFS
    /\ crashed = FALSE
    /\ starts = 0
    /\ reqs = <<>> /\ calls = <<>>

Next ==
    \/ StartParseAddress
    \/ StartMkdirEarly
    \/ StartValidate
    \/ StartInitDrivers
    \/ StartMkdirPlugins
    \/ StartMkSockDir
    \/ StartRemoveSock
    \/ StartGo
    \/ StartCheckSpec
    \/ StartWriteSpec
    \/ \E i \in 1..Len(gor) : GoListen(i)
    \/ \E i \in 1..Len(gor) : GoServeFail(i)
    \/ Kill
    \/ Restart

Spec == Init /\ [][Next]_vars

(***************************************************************************)
(* cleanName and newModule as functions of their input                     *)
(***************************************************************************)
NameChars == {"a", "B", " ", "\t", "_", "-", "!", "/"}
Names == UNION {[1..k -> NameChars] : k \in 0..MaxNameLen} \cup {DefaultDocker}
NameAddresses ==
    {<<>>, <<" ">>, <<" ", " ">>,
     TcpScheme \o <<"://", "127.0.0.1:8080">>,
     <<" ">> \o TcpScheme \o <<"://", "127.0.0.1:8080">> \o <<" ">>}

InitName ==
    /\ cfg \in [Name : Names, Address : NameAddresses, Spec : {<<>>}]
    /\ m = NoMod
    /\ fname = NoName
    /\ pc = "idle" /\ ret = <<>> /\ gor = <<>>
    /\ proto = NoStr /\ addr = NoStr /\ specPath = NoStr /\ rmErr = "unset"
    /\ dirs = {<<"/">>, <<"/tmp/">>}
    /\ files = EmptyFS
    /\ crashed = FALSE
    /\ starts = 0
    /\ reqs = <<>> /\ calls = <<>>

\* fname := cleanName(c.Name), lines 52 and 187
CleanName ==
    /\ fname = NoName
    /\ fname' = cleanName(cfg.Name)
    /\ UNCHANGED <<cfg, m>>
    /\ UNCHANGED <<lifeVars, muxVars>>

\* lines 44-77
NewModule ==
    /\ ~m.built
    /\ m' = newModule(cfg)
    /\ UNCHANGED <<cfg, fname>>
    /\ UNCHANGED <<lifeVars, muxVars>>

NextName == CleanName \/ NewModule

SpecName == InitName /\ [][NextName]_vars

(***************************************************************************)
(* buildMux: the request handlers, lines 219-369                           *)
(***************************************************************************)
DockerCT == "application/vnd.docker.plugins.v1.2+json"
PlainCT == "text/plain; charset=utf-8"

Verbs == {"activate", "create", "remove", "path", "mount", "unmount", "get", "list"}

\* request bodies: nothing at all, text that is no JSON, and JSON objects
\* with or without the Name and Opts members
Bodies ==
    {[kind |-> "empty", Name |-> "absent", Opts |-> "absent"],
     [kind |-> "malformed", Name |-> "absent", Opts |-> "absent"],
     [kind |-> "object", Name |-> "absent", Opts |-> "absent"],
     [kind |-> "object", Name |-> "vol1", Opts |-> "size=1"]}

NoPr == [err |-> "unset", Name |-> "", Opts |-> ""]
NoPayload == [kind |-> "none", val |-> ""]
NoResp == [status |-> 0, ctype |-> "", err |-> "", payload |-> NoPayload]

\* json.NewDecoder(r.Body).Decode(&pr): an absent body is io.EOF, a member
\* that is missing leaves the zero value
jsonDecode(b) ==
    CASE b.kind = "empty" -> [err |-> "EOF", Name |-> "", Opts |-> ""]
      [] b.kind = "malformed" ->
            [err |-> "invalid character", Name |-> "", Opts |-> ""]
      [] OTHER ->
            [err |-> "nil",
             Name |-> IF b.Name = "absent" THEN "" ELSE b.Name,
             Opts |-> IF b.Opts = "absent" THEN "" ELSE b.Opts]

\* http.Error(w, fmt.Sprintf("{\"Error\":\"%s\"}", msg), code): net/http sets
\* the content type of the reply to text/plain
httpError(msg, code) ==
    [status |-> code, ctype |-> PlainCT, err |-> msg, payload |-> NoPayload]

\* w.Header().Set("Content-Type", ...) followed by the write of the payload
Success(payload) ==
    [status |-> 200, ctype |-> DockerCT, err |-> "", payload |-> payload]

\* the Volume Manager call of each handler, lines 236, 256, 276, 296, 316,
\* 336 and 356
VMCall(verb, pr) ==
    CASE verb = "create"  -> [op |-> "Create",  args |-> <<pr.Name, pr.Opts>>]
      [] verb = "remove"  -> [op |-> "Remove",  args |-> <<pr.Name>>]
      [] verb = "path"    -> [op |-> "Path",    args |-> <<pr.Name, "">>]
      [] verb = "mount"   -> [op |-> "Mount",
                              args |-> <<pr.Name, "", "false", "", "false">>]
      [] verb = "unmount" -> [op |-> "Unmount", args |-> <<pr.Name, "">>]
      [] verb = "get"     -> [op |-> "Get",     args |-> <<pr.Name>>]
      [] verb = "list"    -> [op |-> "List",    args |-> <<>>]

\* what the Volume Manager may answer: an error, or the value of the call
VMResults(op) ==
    {[err |-> "vm error", val |-> ""]} \cup
    {[err |-> "nil",
      val |-> CASE op \in {"Path", "Mount"} -> "/data/vol1"
                [] op = "Get" -> "volume"
                [] op = "List" -> "volumes"
                [] OTHER -> ""]}

\* the success payload of each handler, lines 245, 265, 285, 305, 325, 345
\* and 365
SuccessPayload(verb, val) ==
    CASE verb \in {"create", "remove", "unmount"} -> [kind |-> "{}", val |-> ""]
      [] verb \in {"path", "mount"} -> [kind |-> "Mountpoint", val |-> val]
      [] verb = "get" -> [kind |-> "Volume", val |-> val]
      [] verb = "list" -> [kind |-> "Volumes", val |-> val]

Serving == ~crashed /\ \E i \in 1..Len(gor) : gor[i].state = "serving"

\* a request arrives at the listener
Receive(v, b) ==
    /\ Serving /\ Len(reqs) < MaxReqs
    /\ reqs' = Append(reqs, [verb |-> v, body |-> b, st |-> "received",
                             pr |-> NoPr, resp |-> NoResp])
    /\ calls' = Append(calls, <<>>)
    /\ UNCHANGED <<nameVars, lifeVars>>

\* the body decoded as the other handlers do
HandleActivateDecodes(i) ==
    /\ Serving /\ reqs[i].st = "received" /\ reqs[i].verb = "activate"
    /\ LET pr == jsonDecode(reqs[i].body) IN
       reqs' = [reqs EXCEPT ![i].st = "done", ![i].pr = pr,
                  ![i].resp = IF pr.err # "nil"
                              THEN httpError(pr.err, 500)
                              ELSE Success([kind |-> "Implements",
                                            val |-> "VolumeDriver"])]
    /\ UNCHANGED calls
    /\ UNCHANGED <<nameVars, lifeVars>>

\* lines 223-226
HandleActivate(i) ==
    /\ Serving /\ reqs[i].st = "received" /\ reqs[i].verb = "activate"
    /\ reqs' = [reqs EXCEPT ![i].st = "done",
                            ![i].resp = Success([kind |-> "Implements",
                                                 val |-> "VolumeDriver"])]
    /\ UNCHANGED calls
    /\ UNCHANGED <<nameVars, lifeVars>>

\* the return after the decode error left out
HandleDecodeNoReturn(i) ==
    /\ Serving /\ reqs[i].st = "received" /\ reqs[i].verb # "activate"
    /\ LET pr == jsonDecode(reqs[i].body) IN
       /\ reqs' = [reqs EXCEPT ![i].st = "calling", ![i].pr = pr,
                               ![i].resp = IF pr.err # "nil"
                                           THEN httpError(pr.err, 500)
                                           ELSE NoResp]
       /\ calls' = [calls EXCEPT ![i] =
                      Append(@, VMCall(reqs[i].verb, pr) @@ [result |-> "pending"])]
    /\ UNCHANGED <<nameVars, lifeVars>>

\* every handler but activate, up to its call of the Volume Manager: the
\* body is decoded; a decode error is answered with 500 and ends the handler
HandleDecode(i) ==
    /\ Serving /\ reqs[i].st = "received" /\ reqs[i].verb # "activate"
    /\ LET pr == jsonDecode(reqs[i].body) IN
       IF pr.err # "nil"
       THEN /\ reqs' = [reqs EXCEPT ![i].st = "done", ![i].pr = pr,
                                    ![i].resp = httpError(pr.err, 500)]
            /\ UNCHANGED calls
       ELSE /\ reqs' = [reqs EXCEPT ![i].st = "calling", ![i].pr = pr]
            /\ calls' = [calls EXCEPT ![i] =
                           Append(@, VMCall(reqs[i].verb, pr) @@ [result |-> "pending"])]
    /\ UNCHANGED <<nameVars, lifeVars>>

\* a failed call made once more
HandleResultRetry(i) ==
    /\ Serving /\ reqs[i].st = "calling"
    /\ \E r \in VMResults(calls[i][Len(calls[i])].op) :
         IF r.err # "nil"
         THEN /\ calls' = [calls EXCEPT ![i] =
                   Append([@ EXCEPT ![Len(@)].result = r],
                          VMCall(reqs[i].verb, reqs[i].pr) @@ [result |-> "pending"])]
              /\ UNCHANGED reqs
         ELSE /\ calls' = [calls EXCEPT ![i][Len(calls[i])].result = r]
              /\ reqs' = [reqs EXCEPT ![i].st = "done",
                             ![i].resp = Success(SuccessPayload(reqs[i].verb, r.val))]
    /\ UNCHANGED <<nameVars, lifeVars>>

\* a plausible slip: an error of the Volume Manager ends the process, as an
\* error of the listener does
HandleResultPanics(i) ==
    /\ Serving /\ reqs[i].st = "calling"
    /\ \E r \in VMResults(calls[i][Len(calls[i])].op) :
         /\ calls' = [calls EXCEPT ![i][Len(calls[i])].result = r]
         /\ IF r.err # "nil"
            THEN crashed' = TRUE /\ UNCHANGED reqs
            ELSE /\ crashed' = crashed
                 /\ reqs' = [reqs EXCEPT ![i].st = "done",
                       ![i].resp = Success(SuccessPayload(reqs[i].verb, r.val))]
    /\ UNCHANGED <<pc, proto, addr, specPath, rmErr, ret, gor, dirs, files, starts>>
    /\ UNCHANGED nameVars

\* every handler but activate, from the return of the Volume Manager call:
\* an error is answered with 500, a result with the payload of the verb
HandleResult(i) ==
    /\ Serving /\ reqs[i].st = "calling"
    /\ \E r \in VMResults(calls[i][Len(calls[i])].op) :
         /\ calls' = [calls EXCEPT ![i][Len(calls[i])].result = r]
         /\ reqs' = [reqs EXCEPT ![i].st = "done",
                        ![i].resp = IF r.err # "nil"
                                    THEN httpError(r.err, 500)
                                    ELSE Success(SuccessPayload(reqs[i].verb, r.val))]
    /\ UNCHANGED <<nameVars, lifeVars>>

\* the adapter after a Start() that succeeded, its listener serving
InitMux ==
    /\ cfg = [Name |-> DefaultDocker, Address |-> <<>>, Spec |-> <<>>]
    /\ m = newModule(cfg)
    /\ fname = NoName
    /\ pc = "idle" /\ ret = <<"nil">>
    /\ gor = <<[start |-> 1, net |-> "unix",
                listen |-> ParseAddress(m.addr).addr, state |-> "serving"]>>
    /\ proto = NoStr /\ addr = NoStr /\ specPath = NoStr /\ rmErr = "unset"
    /\ dirs = {<<"/">>, <<"/tmp/">>, <<"/run/docker/plugins/">>,
               <<"/etc/docker/plugins/">>}
    /\ files = WriteFile(SpecFile(m, cfg), m.addr,
                  WriteFile(ParseAddress(m.addr).addr, Socket, EmptyFS))
    /\ crashed = FALSE
    /\ starts = 1
    /\ reqs = <<>> /\ calls = <<>>

NextMux ==
    \/ \E v \in Verbs, b \in Bodies : Receive(v, b)
    \/ \E i \in 1..Len(reqs) : HandleActivate(i)
    \/ \E i \in 1..Len(reqs) : HandleDecode(i)
    \/ \E i \in 1..Len(reqs) : HandleResult(i)

SpecMux == InitMux /\ [][NextMux]_vars

(***************************************************************************)
(* Properties                                                              *)
(***************************************************************************)
DiscoveryFile == SpecFile(m, cfg)
SchemeOf(a) == SubSeq(a, 1, SepIndex(a) - 1)
IsError(r) == r \notin {"nil", "pending"}

\* C2: the discovery file is never overwritten.  Once the file exists no
\* step changes or removes its content, and the step that creates it is the
\* write of a Start() that found it absent, which stores that Start's
\* address (specPath).
C2_DiscoveryNeverOverwritten ==
    [][/\ FileExists(DiscoveryFile, files) =>
            /\ FileExists(DiscoveryFile, files')
            /\ files'[DiscoveryFile] = files[DiscoveryFile]
       /\ (~FileExists(DiscoveryFile, files) /\ FileExists(DiscoveryFile, files')) =>
            /\ pc = "writeSpec"
            /\ files'[DiscoveryFile] = specPath]_vars

\* a later Start() with another address has returned success and the file
\* still holds the address of the earlier one
C2_Witness ==
    /\ FileExists(DiscoveryFile, files)
    /\ starts >= 2 /\ ret # <<>> /\ ret[Last] = "nil"
    /\ gor # <<>> /\ gor[Len(gor)].start = Last
    /\ files[DiscoveryFile] \notin {m.addr, gor[Len(gor)].listen}

\* C5 (as claimed): Start() never returns success for a start sequence
\* whose bind failed.
C5_BindFailureReturned ==
    \A i \in 1..Len(gor) :
        gor[i].state = "bindFailed" => ret[gor[i].start] # "nil"

\* C6 (as claimed): a Start() that returned an error has launched no serve
\* goroutine, so no listener of it is bound or serving.
C6_NoPartialStart ==
    \A k \in 1..Len(ret) :
        IsError(ret[k]) => ~\E i \in 1..Len(gor) : gor[i].start = k

\* C7 (as claimed): with an address whose scheme is neither unix nor tcp,
\* ignoring case, Start() never gets past validation: it launches no
\* listener, writes no discovery file and does not return success.
C7_UnsupportedSchemeRejected ==
    (m.built /\ ToLower(SchemeOf(m.addr)) \notin {UnixScheme, TcpScheme}) =>
        /\ gor = <<>>
        /\ pc \notin {"go", "checkSpec", "writeSpec"}
        /\ \A k \in 1..Len(ret) : ret[k] # "nil"

\* C8 (as claimed): an empty configured address yields the default socket
\* address, and a non-empty one is used as given.
C8_AddressAsGiven ==
    m.built =>
        /\ (cfg.Address = <<>> /\ cfg.Name # DefaultDocker) =>
              m.addr = <<"u","n","i","x","://","/run/docker/plugins/">>
                       \o cleanName(cfg.Name) \o <<".sock">>
        /\ (cfg.Address = <<>> /\ cfg.Name = DefaultDocker) =>
              m.addr = <<"u","n","i","x","://","/run/docker/plugins/",
                         "r","e","x","r","a","y",".sock">>
        /\ cfg.Address # <<>> => m.addr = cfg.Address

\* C8 (amended): the configured address is first stripped of surrounding
\* spaces.  If nothing is left the address is the default socket address
\* (sanitized name, or rexray.sock for "default-docker"); otherwise it is
\* the stripped address.
C8_AddressTrimmed ==
    m.built =>
        /\ (Trim(cfg.Address) = <<>> /\ cfg.Name # DefaultDocker) =>
              m.addr = <<"u","n","i","x","://","/run/docker/plugins/">>
                       \o cleanName(cfg.Name) \o <<".sock">>
        /\ (Trim(cfg.Address) = <<>> /\ cfg.Name = DefaultDocker) =>
              m.addr = <<"u","n","i","x","://","/run/docker/plugins/",
                         "r","e","x","r","a","y",".sock">>
        /\ Trim(cfg.Address) # <<>> => m.addr = Trim(cfg.Address)

\* an all-space address took the default, with a name that sanitization changes
C8_Witness ==
    /\ m.built
    /\ cfg.Address # <<>> /\ Trim(cfg.Address) = <<>>
    /\ cfg.Name # DefaultDocker /\ cleanName(cfg.Name) # cfg.Name
    /\ Len(m.addr) > 7

\* C9: cleanName is idempotent: sanitizing a sanitized name changes nothing.
C9_CleanNameIdempotent ==
    fname # NoName => cleanName(fname) = fname

\* a name that sanitization shortened and in which it produced a hyphen
C9_Witness ==
    /\ fname # NoName
    /\ Len(fname) < Len(cfg.Name) /\ Len(fname) >= 2
    /\ "-" \in Range(fname) /\ "-" \notin Range(cfg.Name)

Undecodable(b) == b.kind \in {"empty", "malformed"}

\* C1: a request of any verb but activate whose body does not decode makes
\* no call to the Volume Manager and is answered with status 500 and an
\* error message.
C1_DecodeFailure ==
    \A i \in 1..Len(reqs) :
        (reqs[i].verb # "activate" /\ Undecodable(reqs[i].body)) =>
            /\ calls[i] = <<>>
            /\ reqs[i].st \in {"received", "done"}
            /\ reqs[i].st = "done" =>
                  /\ reqs[i].resp.status = 500
                  /\ reqs[i].resp.err \in {"EOF", "invalid character"}
                  /\ reqs[i].resp.payload = NoPayload

\* two requests with bodies that do not decode have been answered
C1_Witness ==
    /\ Len(reqs) >= 2
    /\ \A i \in 1..2 : reqs[i].st = "done" /\ reqs[i].verb \in {"create", "list"}
    /\ reqs[1].body.kind = "malformed" /\ reqs[2].body.kind = "empty"

\* C3: a request of any verb but activate whose body decodes makes exactly
\* one call to the Volume Manager, the one of its verb with the arguments
\* of the table; an error of that call is answered with 500 and the error's
\* message and no payload, a result with 200 and the payload of the verb
\* and no error.
C3_ExpectedCall(verb, name, opts) ==
    CASE verb = "create"  -> <<"Create", <<name, opts>>>>
      [] verb = "remove"  -> <<"Remove", <<name>>>>
      [] verb = "path"    -> <<"Path", <<name, "">>>>
      [] verb = "mount"   -> <<"Mount", <<name, "", "false", "", "false">>>>
      [] verb = "unmount" -> <<"Unmount", <<name, "">>>>
      [] verb = "get"     -> <<"Get", <<name>>>>
      [] verb = "list"    -> <<"List", <<>>>>

C3_ExpectedPayload(verb) ==
    CASE verb \in {"create", "remove", "unmount"} -> "{}"
      [] verb \in {"path", "mount"} -> "Mountpoint"
      [] verb = "get" -> "Volume"
      [] verb = "list" -> "Volumes"

C3_OneCallOneAnswer ==
    \A i \in 1..Len(reqs) :
        LET r == reqs[i]
            name == IF r.body.Name = "absent" THEN "" ELSE r.body.Name
            opts == IF r.body.Opts = "absent" THEN "" ELSE r.body.Opts
        IN
        (r.verb # "activate" /\ ~Undecodable(r.body) /\ r.st # "received") =>
            /\ Len(calls[i]) = 1
            /\ <<calls[i][1].op, calls[i][1].args>> = C3_ExpectedCall(r.verb, name, opts)
            /\ r.st = "calling" => calls[i][1].result = "pending"
            /\ r.st = "done" =>
                 IF calls[i][1].result.err # "nil"
                 THEN /\ r.resp.status = 500
                      /\ r.resp.err = calls[i][1].result.err
                      /\ r.resp.payload = NoPayload
                 ELSE /\ r.resp.status = 200
                      /\ r.resp.err = ""
                      /\ r.resp.payload.kind = C3_ExpectedPayload(r.verb)
                      /\ r.resp.payload.val = calls[i][1].result.val

\* two requests are in flight together: the call of the first has not
\* returned yet, the second has been answered with the error of its call
C3_Witness ==
    /\ Len(reqs) >= 2
    /\ reqs[1].st = "calling" /\ reqs[1].verb = "mount"
    /\ reqs[2].st = "done" /\ reqs[2].verb = "create"
    /\ reqs[2].resp.status = 500 /\ reqs[2].body.Opts = "size=1"

\* C4 (as claimed): every response carries the content type of the plugin
\* protocol.
C4_ContentTypeEverywhere ==
    \A i \in 1..Len(reqs) :
        reqs[i].st = "done" => reqs[i].resp.ctype = DockerCT

\* C11: a request to /Plugin.Activate makes no call to the Volume Manager
\* and is answered with the capability announcement naming VolumeDriver,
\* with success status, whatever its body is.
C11_ActivateAlways ==
    \A i \in 1..Len(reqs) :
        reqs[i].verb = "activate" =>
            /\ calls[i] = <<>>
            /\ reqs[i].st \in {"received", "done"}
            /\ reqs[i].st = "done" =>
                  /\ reqs[i].resp.status = 200
                  /\ reqs[i].resp.err = ""
                  /\ reqs[i].resp.payload =
                        [kind |-> "Implements", val |-> "VolumeDriver"]

\* activate was answered for a malformed body and for an absent one
C11_Witness ==
    /\ Len(reqs) >= 2
    /\ \A i \in 1..2 : reqs[i].verb = "activate" /\ reqs[i].st = "done"
    /\ reqs[1].body.kind = "malformed" /\ reqs[2].body.kind = "empty"

\* C12 (as claimed): whenever Start() writes the discovery file, the content
\* written is the resolved address with its scheme, the string Address()
\* returns, for a unix and for a TCP endpoint alike.
C12_DiscoveryHoldsAddress ==
    [][(~FileExists(DiscoveryFile, files) /\ FileExists(DiscoveryFile, files')) =>
          files'[DiscoveryFile] = m.addr]_vars

\* C13: with no discovery path configured the discovery path is
\* /etc/docker/plugins/<sanitized name>.spec, and
\* /etc/docker/plugins/rexray.spec for "default-docker": that is the path
\* whose existence Start() tests and the path it writes.  The directory
\* /etc/docker/plugins exists whenever Start() is at the existence test or
\* at the write, also when the file exists already or another discovery
\* path is configured.
C13_DefaultPath ==
    IF m.name = <<"d","e","f","a","u","l","t","-","d","o","c","k","e","r">>
    THEN <<"/etc/docker/plugins/", "r","e","x","r","a","y", ".spec">>
    ELSE <<"/etc/docker/plugins/">> \o cleanName(m.name) \o <<".spec">>

C13_DiscoveryPath ==
    /\ [](pc \in {"checkSpec", "writeSpec"} => <<"/etc/docker/plugins/">> \in dirs)
    /\ [][(~crashed /\ cfg.Spec = <<>>) =>
            /\ (pc = "checkSpec" /\ pc' = "writeSpec") =>
                  C13_DefaultPath \notin DOMAIN files
            /\ (pc = "checkSpec" /\ pc' = "idle") =>
                  C13_DefaultPath \in DOMAIN files
            /\ (pc = "writeSpec" /\ pc' = "idle" /\ files' # files) =>
                  /\ DOMAIN files' = DOMAIN files \cup {C13_DefaultPath}
                  /\ C13_DefaultPath \notin DOMAIN files]_vars

\* a later Start() of a module with a name that sanitization changes is at
\* the existence test, and the file of the default path exists already
C13_Witness ==
    /\ pc = "checkSpec" /\ starts >= 2 /\ cfg.Spec = <<>>
    /\ m.name # DefaultDocker /\ cleanName(m.name) # m.name
    /\ C13_DefaultPath \in DOMAIN files
    /\ EtcPlugins \in dirs

\* a step of the thread that runs Start()
C14_StartStep == ~crashed /\ (pc' # pc \/ ret' # ret)

\* C14 (as claimed): no step of Start() up to and including the validation
\* of the scheme changes the filesystem.
C14_NothingBeforeValidation ==
    [][(C14_StartStep /\ pc \in {"idle", "mkdirEarly", "validate"}) =>
          (dirs' = dirs /\ files' = files)]_vars

C14_Order ==
    {<<"idle", "mkdirEarly">>, <<"mkdirEarly", "validate">>,
     <<"validate", "initDrivers">>, <<"initDrivers", "mkdirPlugins">>,
     <<"mkdirPlugins", "mkSockDir">>, <<"mkSockDir", "rmSock">>,
     <<"rmSock", "go">>, <<"mkdirPlugins", "go">>,
     <<"go", "checkSpec">>, <<"checkSpec", "writeSpec">>}

\* C14 (amended): Start() takes its steps in the order resolve address,
\* create the socket's directory when the scheme is exactly "unix",
\* validate the scheme, initialize the Volume Manager, create the discovery
\* directory, launch bind-and-serve, publish; a step either follows that
\* order or returns.  Up to and including validation no file is removed or
\* written and nothing is launched; the only change of the filesystem is
\* the creation of the socket's directory, for the scheme "unix" only, and
\* a Start() that fails validation has another scheme.
C14_StartOrder ==
    /\ [][C14_StartStep =>
            (pc' = pc \/ pc' = "idle" \/ <<pc, pc'>> \in C14_Order)]_vars
    /\ [][(C14_StartStep /\ pc \in {"idle", "mkdirEarly", "validate"}) =>
            /\ files' = files /\ gor' = gor
            /\ dirs' # dirs =>
                  /\ pc = "mkdirEarly" /\ proto = UnixScheme
                  /\ dirs \subseteq dirs' /\ Dir(addr) \in dirs'
                  /\ <<"/etc/docker/plugins/">> \notin dirs' \ dirs
            /\ pc = "mkdirEarly" => proto' = proto
            /\ (pc = "validate" /\ ret'[Len(ret')] = "invalid protocol") =>
                  proto # UnixScheme]_vars

\* the scheme "unix" is about to be validated and the socket's directory,
\* which did not exist before, has been created; nothing else has happened
C14_Witness ==
    /\ pc = "validate" /\ ~crashed /\ proto = UnixScheme
    /\ Dir(addr) \in dirs /\ Dir(addr) \notin {<<"/">>, <<"/tmp/">>}
    /\ <<"/etc/docker/plugins/">> \notin dirs
    /\ DOMAIN files = {} /\ gor = <<>>

\* the algorithm as specified: trimming takes every whitespace character
C15_Whitespace == {" ", "\t", "\n"}

RECURSIVE C15_TrimSpaceLeft(_)
C15_TrimSpaceLeft(s) ==
    IF s # <<>> /\ Head(s) \in C15_Whitespace THEN C15_TrimSpaceLeft(Tail(s)) ELSE s

RECURSIVE C15_TrimSpaceRight(_)
C15_TrimSpaceRight(s) ==
    IF s # <<>> /\ s[Len(s)] \in C15_Whitespace
    THEN C15_TrimSpaceRight(SubSeq(s, 1, Len(s) - 1))
    ELSE s

\* each run of separator characters becomes one hyphen
RECURSIVE C15_ReplaceRuns(_)
C15_ReplaceRuns(s) ==
    IF s = <<>> THEN <<>>
    ELSE IF Head(s) \in {" ", "&", "_", "=", "+", ":"}
    THEN IF Len(s) >= 2 /\ s[2] \in {" ", "&", "_", "=", "+", ":"}
         THEN C15_ReplaceRuns(Tail(s))
         ELSE <<"-">> \o C15_ReplaceRuns(Tail(s))
    ELSE <<Head(s)>> \o C15_ReplaceRuns(Tail(s))

C15_Sanitize(s) ==
    CollapseDashes(RemoveIllegal(C15_ReplaceRuns(
        ToLower(C15_TrimSpaceRight(C15_TrimSpaceLeft(s))))))

\* C15 (as claimed): cleanName returns, for every name, the result of the
\* specified algorithm, whose first step trims all surrounding whitespace;
\* its output has only characters of the allowed set and no two consecutive
\* hyphens.
C15_CleanNameAsSpecified ==
    fname # NoName =>
        /\ fname = C15_Sanitize(cfg.Name)
        /\ \A i \in 1..Len(fname) : IsLegalPathChar(fname[i])
        /\ \A i \in 1..(Len(fname) - 1) : ~(fname[i] = "-" /\ fname[i + 1] = "-")

\* C16: errors of a request stay with that request.  Whatever requests have
\* failed, the listener goes on serving; a step of a handler changes the
\* state of one request only, and the answer given to a request whose body
\* decoded is the one of its own Volume Manager call, whatever has happened
\* to the other requests.
C16_ErrorsIsolated ==
    /\ [](Serving)
    /\ [][/\ UNCHANGED <<gor, crashed, files, dirs>>
          /\ \A i \in 1..Len(reqs) :
                (reqs'[i] # reqs[i] \/ calls'[i] # calls[i]) =>
                   /\ \A j \in (1..Len(reqs)) \ {i} :
                         reqs'[j] = reqs[j] /\ calls'[j] = calls[j]
                   /\ (reqs[i].st = "calling" /\ reqs'[i].st = "done") =>
                         /\ Len(calls'[i]) = 1
                         /\ reqs'[i].resp.status =
                               IF calls'[i][1].result.err = "nil" THEN 200 ELSE 500
                         /\ reqs'[i].resp.err =
                               IF calls'[i][1].result.err = "nil" THEN ""
                               ELSE calls'[i][1].result.err]_vars

\* the first request failed in the Volume Manager, the second, of the same
\* verb and with the same body, succeeded, and the listener serves
C16_Witness ==
    /\ Serving /\ Len(reqs) >= 2
    /\ reqs[1].st = "done" /\ reqs[2].st = "done"
    /\ reqs[1].verb = "mount" /\ reqs[2].verb = "mount"
    /\ reqs[1].body = reqs[2].body /\ reqs[1].body.Name = "vol1"
    /\ reqs[1].resp.status = 500 /\ reqs[2].resp.status = 200

\* C17 (as claimed): a /VolumeDriver.List request with an absent body or
\* with an empty envelope calls list() on the Volume Manager exactly once
\* and, when list() succeeds, is answered with the volumes and status 200.
C17_ListNeedsNoBody ==
    \A i \in 1..Len(reqs) :
        (/\ reqs[i].verb = "list"
         /\ reqs[i].body.kind \in {"empty", "object"}
         /\ reqs[i].st = "done") =>
            /\ Len(calls[i]) = 1
            /\ calls[i][1].op = "List"
            /\ calls[i][1].result.err = "nil" =>
                  /\ reqs[i].resp.status = 200
                  /\ reqs[i].resp.payload.kind = "Volumes"

\* C18: when the serve loop of a bound listener ends, the process is ended
\* by the failure and, for a unix socket, the socket file is gone by then;
\* the end of the serve loop removes nothing but that file.  In the process
\* that has failed no listener binds or serves again and nothing changes:
\* only a new run of the daemon starts listeners anew.
C18_ServeFailureFatal ==
    /\ [](\A i \in 1..Len(gor) :
            gor[i].state = "serveFailed" =>
                /\ crashed
                /\ gor[i].net = "unix" => ~FileExists(gor[i].listen, files))
    /\ [][\A i \in 1..Len(gor) :
            /\ (gor[i].state = "serving" /\ Len(gor') >= i
                   /\ gor'[i].state = "serveFailed") =>
                  /\ crashed'
                  /\ DOMAIN files' = DOMAIN files \
                        (IF gor[i].net = "unix" THEN {gor[i].listen} ELSE {})
                  /\ \A j \in (1..Len(gor)) \ {i} : gor'[j] = gor[j]
            /\ gor[i].state = "serveFailed" =>
                  \/ UNCHANGED <<gor, files, dirs, ret, pc, crashed>>
                  \/ gor' = <<>> /\ ~crashed' /\ pc' = "idle" /\ ret' = <<>>]_vars

\* the serve loop of a unix listener has ended after its Start() returned
\* success; the discovery file is left, the socket file is not
C18_Witness ==
    \E i \in 1..Len(gor) :
        /\ gor[i].state = "serveFailed" /\ gor[i].net = "unix"
        /\ ret[gor[i].start] = "nil"
        /\ FileExists(SpecFile(m, cfg), files)
        /\ crashed

\* C19 (as claimed): a listener launched for an address that passed
\* validation takes the path of the scheme of that address, compared
\* ignoring letter case: the unix path (directory created, stale socket
\* removed, unix-socket bind) exactly when the scheme is unix, and the TCP
\* path only when the scheme is tcp.
C19_ListenerPathOfScheme ==
    \A i \in 1..Len(gor) :
        /\ gor[i].net = "unix" <=> ToLower(SchemeOf(m.addr)) = <<"u","n","i","x">>
        /\ gor[i].net = "tcp" => ToLower(SchemeOf(m.addr)) = <<"t","c","p">>

\* C20 (as claimed): when Start() has returned success, and when the
\* discovery file is written, the listener launched by that Start() has
\* been bound already.
C20_PublicationFollowsBinding ==
    /\ \A k \in 1..Len(ret) :
          ret[k] = "nil" =>
             \E i \in 1..Len(gor) :
                gor[i].start = k /\ gor[i].state \in {"serving", "serveFailed"}
    /\ pc = "writeSpec" =>
          \E i \in 1..Len(gor) :
             gor[i].start = Len(ret) /\ gor[i].state \in {"serving", "serveFailed"}

====
